---- MODULE Spec2Model ----
(***************************************************************************)
(* A model of easy_scraping/customscraper.py: MyScraper.scrape seeds a     *)
(* ThreadPoolExecutor, the pool's workers run MyScraper.__scrape, tasks    *)
(* submit further tasks and register their futures in self.futures, the    *)
(* main thread drains that queue and then serialises self.data.            *)
(* kill_threads (the SIGINT handler) clears the global RUNNING.            *)
(*                                                                         *)
(* A URL is a sequence of tokens: "https://a.test/b" is                    *)
(* <<"https", ":", "/", "/", "a.test", "/", "b">>.                         *)
(***************************************************************************)
EXTENDS Integers, Sequences, FiniteSets, TLC

VARIABLES
    start_urls,           \* self.start_urls
    max_workers,          \* ThreadPoolExecutor(max_workers = ...)
    max_recursion_depth,  \* self.max_recursion_depth
    web,                  \* which of the Webs the run crawls (the remote pages)
    RUNNING,              \* the module global RUNNING
    data,                 \* self.data: LockingDict, URL -> PageResult
    futures,              \* self.futures: Queue of handles (FIFO)
    tasks,                \* every future the executor has returned, in submit order;
                          \* a handle is an index of this sequence
    pc,                   \* where the main thread is in scrape()
    seed_i,               \* index of the for loop of line 60
    seed_h,               \* the handle executor.submit returned at line 61, until it is put
    waiting,              \* the handle the main thread took with futures.get()
    output                \* what scrape() serialised (line 69), NoOutput before

vars == <<start_urls, max_workers, max_recursion_depth, web, RUNNING, data,
          futures, tasks, pc, seed_i, seed_h, waiting, output>>

----------------------------------------------------------------------------
(* Bounds of the model *)

MaxDepth == 2
MaxWorkers == 2

----------------------------------------------------------------------------
(* urllib.parse.urlparse, as far as line 117-118 uses it, and line 116-118 *)

\* The first position of token c in s, 0 when it does not occur.
Find(s, c) ==
    IF \E i \in 1..Len(s) : s[i] = c
    THEN CHOOSE i \in 1..Len(s) : s[i] = c /\ \A j \in 1..(i - 1) : s[j] # c
    ELSE 0

\* str.startswith("/")
StartsWithSlash(s) == Len(s) >= 1 /\ s[1] = "/"

\* urlparse(url).scheme: what precedes the first ":".
Scheme(url) ==
    IF Find(url, ":") = 0 THEN <<>> ELSE SubSeq(url, 1, Find(url, ":") - 1)

\* What follows "scheme:".
AfterScheme(url) ==
    IF Find(url, ":") = 0 THEN url ELSE SubSeq(url, Find(url, ":") + 1, Len(url))

\* urlparse(url).netloc: after a leading "//", up to the next "/".
Netloc(url) ==
    LET r == AfterScheme(url) IN
    IF Len(r) >= 2 /\ r[1] = "/" /\ r[2] = "/"
    THEN LET h == SubSeq(r, 3, Len(r)) IN
         IF Find(h, "/") = 0 THEN h ELSE SubSeq(h, 1, Find(h, "/") - 1)
    ELSE <<>>

\* Lines 113-118: the URL the child task is given for an href of the page at url.
NextUrl(url, href) ==
    IF StartsWithSlash(href)
    THEN Scheme(url) \o <<":", "/", "/">> \o Netloc(url) \o <<"/">> \o href
    ELSE href

----------------------------------------------------------------------------
(* URLs and the pages behind them *)

Root(host) == <<"https", ":", "/", "/", host, "/">>

UrlA == Root("a.test")
UrlB == Root("b.test")
UrlC == Root("c.test")
UrlXY == Root("a.test") \o <<"x", "/", "y">>
HrefB == <<"/", "b">>
HrefAbout == <<"/", "about">>

\* The hrefs of the <a href=...> elements of the page at url, in document order.
Webs == {"single", "shared", "nested"}

PageLinks(w, url) ==
    CASE w = "single" /\ url = UrlA -> <<HrefB>>
      [] w = "single" /\ url = NextUrl(UrlA, HrefB) -> <<HrefB>>
      [] w = "shared" /\ url = UrlA -> <<UrlC>>
      [] w = "shared" /\ url = UrlB -> <<UrlC>>
      [] w = "nested" /\ url = UrlXY -> <<HrefAbout, UrlXY>>
      [] OTHER -> <<>>

\* The start_urls a run over web w is given.
SeedLists(w) ==
    CASE w = "single" -> {<<UrlA>>, <<>>}
      [] w = "shared" -> {<<UrlA, UrlB>>}
      [] w = "nested" -> {<<UrlXY>>}

----------------------------------------------------------------------------
(* The state of one future of the executor *)

\* scrape() before line 69: nothing serialised yet.
NoOutput == [emitted |-> FALSE, mapping |-> <<>>]

\* f"{url}-{depth}", the value __scrape returns (lines 102 and 127).
Marker(url, depth) == [kind |-> "marker", url |-> url, depth |-> depth]
Pending == [kind |-> "pending", url |-> <<>>, depth |-> 0]
Raised == [kind |-> "exception", url |-> <<>>, depth |-> 0]

\* executor.submit(self.__scrape, url, depth): a new work item, not yet started.
\* at: queued -> entry -> check -> fetch -> insert -> links -> put -> done
\* The next five fields record what the task did: whether RUNNING was already
\* False when it executed line 91, whether it called requests.get, what came
\* back, whether it executed line 111, and whether RUNNING was False by then.
\* The last three record what happened to its future: how often it was put
\* into self.futures, taken out of it, and waited on to the end by
\* __drain_queue.
NewTask(url, depth, parent) ==
    [url |-> url, depth |-> depth, parent |-> parent, at |-> "queued",
     hrefs |-> <<>>, k |-> 1, child |-> 0, result |-> Pending,
     saw_cancel |-> FALSE, fetched |-> FALSE, outcome |-> "none",
     stored |-> FALSE, stored_late |-> FALSE,
     puts |-> 0, gets |-> 0, waits |-> 0]

\* A put that loses the handle.
Enqueue_Drop(q, h) == q

\* queue.Queue.put (lines 61 and 121): the handle goes to the end of the queue.
Enqueue(q, h) == Append(q, h)

Handles == 1..Len(tasks)
Executing(t) == tasks[t].at \notin {"queued", "done"}
Resolved(t) == tasks[t].at = "done"
NumExecuting == Cardinality({t \in Handles : Executing(t)})

\* The tasks submitted by task t (line 121).
Children(t) == {c \in Handles : tasks[c].parent = t}

\* Lines 102 and 127: return f"{url}-{depth}", which resolves the task's future
\* with that value. The return is taken in the step that leads to it: nothing
\* is read or written between the two, and resolving a future only enables
\* steps of the other threads.
Returned(task) ==
    [task EXCEPT !.at = "done", !.result = Marker(task.url, task.depth)]

\* PageResult: the page the response was for and the task whose fetch produced it.
PageResult(t) == [page |-> tasks[t].url, by |-> t]

----------------------------------------------------------------------------
(* Construction: MyScraper.__init__ (lines 44-50) and RUNNING = True (line 20) *)

Init ==
    /\ web \in Webs
    /\ start_urls \in SeedLists(web)
    /\ max_workers \in 1..MaxWorkers
    /\ max_recursion_depth \in 0..MaxDepth
    /\ RUNNING = TRUE
    /\ data = <<>>
    /\ futures = <<>>
    /\ tasks = <<>>
    /\ pc = "seed_submit"
    /\ seed_i = 1
    /\ seed_h = 0
    /\ waiting = 0
    /\ output = NoOutput

unchanged_config == UNCHANGED <<start_urls, max_workers, max_recursion_depth, web>>

----------------------------------------------------------------------------
(* The main thread: scrape() and __drain_queue() *)

\* Line 60-61, first half: executor.submit(self.__scrape, url, 0); the loop ends
\* when start_urls is exhausted and __drain_queue is entered.
SeedSubmit ==
    /\ pc = "seed_submit"
    /\ IF seed_i <= Len(start_urls)
       THEN /\ tasks' = Append(tasks, NewTask(start_urls[seed_i], 0, 0))
            /\ seed_h' = Len(tasks) + 1
            /\ pc' = "seed_put"
       ELSE /\ pc' = "drain_test"
            /\ UNCHANGED <<tasks, seed_h>>
    /\ UNCHANGED <<RUNNING, data, futures, seed_i, waiting, output>>
    /\ unchanged_config

\* Line 61, second half: self.futures.put(<the future just returned>).
SeedPut ==
    /\ pc = "seed_put"
    /\ futures' = Enqueue(futures, seed_h)
    /\ tasks' = [tasks EXCEPT ![seed_h].puts = tasks[seed_h].puts + 1]
    /\ seed_i' = seed_i + 1
    /\ seed_h' = 0
    /\ pc' = "seed_submit"
    /\ UNCHANGED <<RUNNING, data, waiting, output>>
    /\ unchanged_config

\* Line 130: while not self.futures.empty()
DrainTest ==
    /\ pc = "drain_test"
    /\ pc' = IF futures = <<>> THEN "output" ELSE "drain_get"
    /\ UNCHANGED <<RUNNING, data, futures, tasks, seed_i, seed_h, waiting, output>>
    /\ unchanged_config

\* Line 131: self.futures.get()
DrainGet ==
    /\ pc = "drain_get"
    /\ futures # <<>>
    /\ waiting' = Head(futures)
    /\ futures' = Tail(futures)
    /\ tasks' = [tasks EXCEPT ![Head(futures)].gets = tasks[Head(futures)].gets + 1]
    /\ pc' = "drain_wait"
    /\ UNCHANGED <<RUNNING, data, seed_i, seed_h, output>>
    /\ unchanged_config

\* A drain that does not block on an unresolved future.
ResultReady_NoWait(h) == TRUE

\* Whether future.result() may return: the future is resolved.
ResultReady(h) == Resolved(h)

\* Line 131: .result() blocks until the future is resolved, then returns its
\* value or re-raises the exception the task ended with; nothing in
\* __drain_queue or scrape catches it, so scrape() is left by the exception.
DrainWait ==
    /\ pc = "drain_wait"
    /\ ResultReady(waiting)
    /\ pc' = IF tasks[waiting].result.kind = "exception" THEN "crashed" ELSE "drain_test"
    /\ tasks' = [tasks EXCEPT ![waiting].waits = tasks[waiting].waits + 1]
    /\ waiting' = 0
    /\ UNCHANGED <<RUNNING, data, futures, seed_i, seed_h, output>>
    /\ unchanged_config

\* Lines 69-75: json.dumps(self.data) and the write to the sink.
Output ==
    /\ pc = "output"
    /\ output' = [emitted |-> TRUE, mapping |-> data]
    /\ pc' = "done"
    /\ UNCHANGED <<RUNNING, data, futures, tasks, seed_i, seed_h, waiting>>
    /\ unchanged_config

\* kill_threads (lines 133-136): SIGINT while the process runs.
Cancel ==
    /\ pc \notin {"done", "crashed"}
    /\ RUNNING
    /\ RUNNING' = FALSE
    /\ UNCHANGED <<data, futures, tasks, pc, seed_i, seed_h, waiting, output>>
    /\ unchanged_config

----------------------------------------------------------------------------
(* The pool's workers: ThreadPoolExecutor and MyScraper.__scrape *)

\* A worker takes the oldest work item (the pool's work queue is FIFO) when
\* fewer than max_workers tasks are executing.
Pickup(t) ==
    /\ tasks[t].at = "queued"
    /\ \A s \in 1..(t - 1) : tasks[s].at # "queued"
    /\ NumExecuting < max_workers
    /\ tasks' = [tasks EXCEPT ![t].at = "entry"]
    /\ UNCHANGED <<RUNNING, data, futures, pc, seed_i, seed_h, waiting, output>>
    /\ unchanged_config

\* An entry check that does not look at the flag.
EntryPasses_Always == TRUE

\* Line 91: if RUNNING
EntryPasses == RUNNING

Entry(t) ==
    /\ tasks[t].at = "entry"
    /\ LET seen == [tasks[t] EXCEPT !.saw_cancel = ~RUNNING] IN
       tasks' = [tasks EXCEPT ![t] = IF EntryPasses
                                     THEN [seen EXCEPT !.at = "check"]
                                     ELSE Returned(seen)]
    /\ UNCHANGED <<RUNNING, data, futures, pc, seed_i, seed_h, waiting, output>>
    /\ unchanged_config

\* The test of line 95 without its depth bound.
ShouldFetch_NoDepthCap(url, depth) == url \notin DOMAIN data

\* The test of line 95 with <= for <.
ShouldFetch_OffByOne(url, depth) ==
    url \notin DOMAIN data /\ depth <= max_recursion_depth

\* The test of line 95 without its look at self.data.
ShouldFetch_NoVisitedCheck(url, depth) == depth < max_recursion_depth

\* Line 95: url not in self.data and depth < self.max_recursion_depth
ShouldFetch(url, depth) == url \notin DOMAIN data /\ depth < max_recursion_depth

\* Lines 95-97: the test, and with it the call of requests.get(url).
Check(t) ==
    /\ tasks[t].at = "check"
    /\ tasks' = IF ShouldFetch(tasks[t].url, tasks[t].depth)
                THEN [tasks EXCEPT ![t].at = "fetch", ![t].fetched = TRUE]
                ELSE [tasks EXCEPT ![t] = Returned(tasks[t])]
    /\ UNCHANGED <<RUNNING, data, futures, pc, seed_i, seed_h, waiting, output>>
    /\ unchanged_config

\* What lines 97-110 can come to: requests.get raises; it returns a response
\* that is not r.ok; it returns an r.ok response that BeautifulSoup parses; or
\* it returns an r.ok response and the parsing (lines 108-110) raises.
FetchOutcomes == {"ok", "not_ok", "raise", "parse_error"}

\* Line 106 without the test of r.ok: every response is parsed.
FetchSucceeded_AnyResponse(outcome) == outcome \in {"ok", "parse_error", "not_ok"}

\* Line 106: if r.ok, after a requests.get that did not raise.
FetchSucceeded(outcome) == outcome \in {"ok", "parse_error"}

\* Lines 97-110: requests.get returns or raises, and the response is parsed.
\* Lines 107-110 are outside the try of line 96: an exception raised there
\* leaves __scrape, and the executor stores it in the future.
Fetch(t) ==
    /\ tasks[t].at = "fetch"
    /\ \E outcome \in FetchOutcomes :
         tasks' = IF ~FetchSucceeded(outcome)
                  THEN [tasks EXCEPT ![t] = Returned([tasks[t] EXCEPT !.outcome = outcome])]
                  ELSE IF outcome = "parse_error"
                  THEN [tasks EXCEPT ![t].outcome = outcome, ![t].at = "done",
                                     ![t].result = Raised]
                  ELSE [tasks EXCEPT ![t].outcome = outcome, ![t].at = "insert",
                                     ![t].hrefs = PageLinks(web, tasks[t].url)]
    /\ UNCHANGED <<RUNNING, data, futures, pc, seed_i, seed_h, waiting, output>>
    /\ unchanged_config

\* LockingDict.__setitem__ (lines 29-31): under the lock, dict.__setitem__.
SetItem(d, key, value) == (key :> value) @@ d

\* Lines 111-112: self.data[url] = data, then the loop of line 112 is entered, or,
\* the page having no link, line 127 is reached.
Insert(t) ==
    /\ tasks[t].at = "insert"
    /\ data' = SetItem(data, tasks[t].url, PageResult(t))
    /\ LET set == [tasks[t] EXCEPT !.stored = TRUE, !.stored_late = ~RUNNING, !.k = 1] IN
       tasks' = [tasks EXCEPT ![t] = IF set.hrefs = <<>>
                                     THEN Returned(set)
                                     ELSE [set EXCEPT !.at = "links"]]
    /\ UNCHANGED <<RUNNING, futures, pc, seed_i, seed_h, waiting, output>>
    /\ unchanged_config

\* Line 121 passing depth on unchanged.
ChildDepth_Same(depth) == depth

\* Line 121: the depth the child is submitted with.
ChildDepth(depth) == depth + 1

\* Lines 113-121, first half: next_url and executor.submit(self.__scrape, next_url, depth + 1).
Submit(t) ==
    /\ tasks[t].at = "links"
    /\ tasks' = Append([tasks EXCEPT ![t].at = "put", ![t].child = Len(tasks) + 1],
                       NewTask(NextUrl(tasks[t].url, tasks[t].hrefs[tasks[t].k]),
                               ChildDepth(tasks[t].depth), t))
    /\ UNCHANGED <<RUNNING, data, futures, pc, seed_i, seed_h, waiting, output>>
    /\ unchanged_config

\* Line 121 once scrape() was left by an exception: the interpreter is shutting
\* down, and executor.submit may raise RuntimeError, which leaves __scrape.
SubmitRefused(t) ==
    /\ tasks[t].at = "links"
    /\ pc = "crashed"
    /\ tasks' = [tasks EXCEPT ![t].at = "done", ![t].result = Raised]
    /\ UNCHANGED <<RUNNING, data, futures, pc, seed_i, seed_h, waiting, output>>
    /\ unchanged_config

\* Line 121, second half: self.futures.put(<the child's future>), and the next
\* iteration of the loop of line 112, or after the last one line 127.
Put(t) ==
    /\ tasks[t].at = "put"
    /\ futures' = Enqueue(futures, tasks[t].child)
    /\ LET next == [tasks[t] EXCEPT !.child = 0, !.k = tasks[t].k + 1] IN
       tasks' = [tasks EXCEPT ![t] = IF next.k <= Len(next.hrefs)
                                     THEN [next EXCEPT !.at = "links"]
                                     ELSE Returned(next),
                              ![tasks[t].child].puts = tasks[tasks[t].child].puts + 1]
    /\ UNCHANGED <<RUNNING, data, pc, seed_i, seed_h, waiting, output>>
    /\ unchanged_config

----------------------------------------------------------------------------
(* The specifications *)

Main == SeedSubmit \/ SeedPut \/ DrainTest \/ DrainGet \/ DrainWait \/ Output

Worker ==
    \/ \E t \in Handles : Pickup(t)
    \/ \E t \in Handles : Entry(t)
    \/ \E t \in Handles : Check(t)
    \/ \E t \in Handles : Fetch(t)
    \/ \E t \in Handles : Insert(t)
    \/ \E t \in Handles : Submit(t)
    \/ \E t \in Handles : SubmitRefused(t)
    \/ \E t \in Handles : Put(t)

Next == Main \/ Worker \/ Cancel

Spec == Init /\ [][Next]_vars

\* The main thread and the pool's workers keep running while they can (the OS
\* schedules every thread, and every requests.get returns); SIGINT may never come.
FairSpec == Spec /\ WF_vars(Main) /\ WF_vars(Worker)

----------------------------------------------------------------------------
(* Claims *)

\* C1: when scrape() has left __drain_queue (it is about to serialise, or has
\* serialised, self.data), every task ever submitted has resolved, none with an
\* exception, and no handle is left in the queue; so the store that was
\* serialised is the store as it stays. Cancelled or not.
C1_AllResolvedAtOutput ==
    pc \in {"output", "done"} =>
        /\ \A t \in Handles : Resolved(t) /\ tasks[t].result.kind = "marker"
        /\ futures = <<>>
        /\ (pc = "done" => output = [emitted |-> TRUE, mapping |-> data])

\* A cancelled run whose seed spawned a child is about to serialise.
C1_Witness ==
    /\ pc = "output"
    /\ ~RUNNING
    /\ \E t \in Handles : tasks[t].parent # 0 /\ tasks[t].saw_cancel


\* The run has ended the way scrape() is meant to end: the queue is empty,
\* __drain_queue has returned and the output has been produced.
Terminated == pc = "done" /\ futures = <<>> /\ output.emitted

\* Some task ended with an exception (lines 107-110 raised, or submit did).
SomeTaskRaised == \E t \in Handles : tasks[t].result.kind = "exception"

\* C2: with every fetch returning and the threads scheduled fairly, the crawl
\* terminates: the futures queue becomes empty, __drain_queue returns and the
\* output is produced.
C2_Terminates == <>Terminated

\* What the code does give under the same fairness: the crawl terminates
\* unless a task ends with an exception.
TerminatesUnlessRaised == <>(Terminated \/ SomeTaskRaised)


\* C3: for each URL the insert of line 111 is executed at most once in a run,
\* so a stored PageResult is never overwritten.
C3_InsertedOnce ==
    \A t1, t2 \in Handles :
        (tasks[t1].stored /\ tasks[t2].stored /\ tasks[t1].url = tasks[t2].url)
            => t1 = t2

\* C4 as claimed: no task is ever submitted with depth >= max_recursion_depth.
C4_DepthBelowMax == \A t \in Handles : tasks[t].depth < max_recursion_depth

\* C4 as amended: no task is ever submitted with depth > max_recursion_depth,
\* and a task whose depth is >= max_recursion_depth never fetches, never
\* stores and never submits a child.
C4_DepthCapped ==
    \A t \in Handles :
        /\ tasks[t].depth <= max_recursion_depth
        /\ tasks[t].depth >= max_recursion_depth =>
              ~tasks[t].fetched /\ ~tasks[t].stored /\ Children(t) = {}

\* A child submitted at exactly max_recursion_depth has run and resolved.
C4_Witness ==
    \E t \in Handles :
        /\ tasks[t].parent # 0
        /\ tasks[t].depth = max_recursion_depth
        /\ Resolved(t)

\* Seeds are at depth 0 and a child is one deeper than the task that submitted it.
C5_Depths ==
    \A t \in Handles :
        IF tasks[t].parent = 0
        THEN tasks[t].depth = 0
        ELSE /\ tasks[t].parent \in 1..(t - 1)
             /\ tasks[t].depth = tasks[tasks[t].parent].depth + 1

\* A step that submits a task submits one: a seed, by scrape(), or a child, by
\* a task that is executing at that moment.
C5_SubmitStep ==
    Len(tasks') # Len(tasks) =>
        /\ Len(tasks') = Len(tasks) + 1
        /\ LET c == tasks'[Len(tasks')] IN
           \/ c.parent = 0 /\ pc = "seed_submit"
           \/ c.parent \in Handles /\ Executing(c.parent)

\* C5: every seed is submitted at depth 0, every child at its parent's depth
\* + 1, and only by a parent that is executing when it submits.
C5_DepthAndCausality == []C5_Depths /\ [][C5_SubmitStep]_vars

\* A grandchild of a seed exists, at depth 2.
C5_Witness ==
    \E t \in Handles :
        /\ tasks[t].parent # 0
        /\ tasks[tasks[t].parent].parent # 0
        /\ tasks[t].depth = 2

\* C6: a task that executes line 91 after RUNNING was set to False calls no
\* requests.get, stores nothing, submits no child, and resolves with its marker.
C6_CancelObserved ==
    \A t \in Handles :
        tasks[t].saw_cancel =>
            /\ ~tasks[t].fetched /\ ~tasks[t].stored /\ Children(t) = {}
            /\ Resolved(t)
            /\ tasks[t].result = Marker(tasks[t].url, tasks[t].depth)

\* After the signal: one task saw it and resolved, and another, which had
\* passed line 91 before, stored its page after the signal.
C6_Witness ==
    /\ ~RUNNING
    /\ \E t \in Handles : tasks[t].saw_cancel /\ Resolved(t)
    /\ \E s \in Handles : ~tasks[s].saw_cancel /\ tasks[s].stored_late

\* The output holds exactly what the store holds.
EmittedAll == pc = "done" /\ output = [emitted |-> TRUE, mapping |-> data]

\* C7: RUNNING, once False, stays False, and a run in which it was set to
\* False still drains and emits the store as it is.
C7_CancelledRunEmits == [](~RUNNING => [](~RUNNING)) /\ (~RUNNING ~> EmittedAll)

\* What the code does give: the same, unless a task ends with an exception.
CancelledRunEmitsUnlessRaised ==
    [](~RUNNING => [](~RUNNING)) /\ (~RUNNING ~> (EmittedAll \/ SomeTaskRaised))

\* requests.get of task t raised, or returned a response that is not r.ok.
FetchFailed(t) == tasks[t].outcome \in {"raise", "not_ok"}

\* The run has one seed and its fetch failed.
OnlySeedFailed == Len(start_urls) = 1 /\ Len(tasks) >= 1 /\ FetchFailed(1)

EmptyOutput == pc = "done" /\ output = [emitted |-> TRUE, mapping |-> <<>>]

\* A task whose fetch failed stores nothing, submits nothing and resolves with
\* its marker; a run whose only seed failed keeps an empty store and does not
\* leave scrape() by an exception.
C8_FailureIsLocal ==
    /\ \A t \in Handles :
          FetchFailed(t) =>
              /\ ~tasks[t].stored /\ Children(t) = {}
              /\ Resolved(t)
              /\ tasks[t].result = Marker(tasks[t].url, tasks[t].depth)
    /\ OnlySeedFailed => data = <<>> /\ Len(tasks) = 1 /\ pc # "crashed"

\* C8: a failed fetch is local to its task, and a run whose only seed fails
\* still produces its output, the empty mapping.
C8_FetchFailure == []C8_FailureIsLocal /\ (OnlySeedFailed ~> EmptyOutput)

\* The run of a single seed whose fetch failed has emitted the empty mapping.
C8_Witness == OnlySeedFailed /\ EmptyOutput

\* C9: a parse error is local to its task, as a fetch error is: the task
\* resolves with its marker, stores nothing, submits nothing, and scrape() is
\* not left by an exception.
C9_ParseErrorIsLocal ==
    /\ \A t \in Handles :
          tasks[t].outcome = "parse_error" =>
              /\ ~tasks[t].stored /\ Children(t) = {}
              /\ Resolved(t) => tasks[t].result = Marker(tasks[t].url, tasks[t].depth)
    /\ pc # "crashed"

\* Scenario A, run to its end: one seed https://a.test/ whose page holds the
\* single link /b, max_recursion_depth = 1, no fetch failing, no SIGINT.
ScenarioADone ==
    /\ web = "single" /\ start_urls = <<UrlA>> /\ max_recursion_depth = 1
    /\ pc = "done" /\ RUNNING
    /\ \A t \in Handles : tasks[t].outcome \in {"none", "ok"}

\* https://a.test/b
UrlAB == Root("a.test") \o <<"b">>

\* C10 as claimed: the final store holds a.test/ and a.test/b, the latter
\* fetched by a task at depth 1 that submitted no child.
C10_BothStored ==
    ScenarioADone =>
        /\ UrlA \in DOMAIN output.mapping
        /\ UrlAB \in DOMAIN output.mapping
        /\ \E t \in Handles :
              /\ tasks[t].url = UrlAB /\ tasks[t].depth = 1
              /\ tasks[t].fetched /\ tasks[t].stored /\ Children(t) = {}

\* C10 as amended: the final store holds a.test/ alone; the link /b is
\* submitted once, at depth 1, as https://a.test//b, and that task, stopped by
\* the depth cap, fetches nothing, stores nothing and submits no child.
C10_OnlySeedStored ==
    ScenarioADone =>
        /\ DOMAIN output.mapping = {UrlA}
        /\ Len(tasks) = 2
        /\ tasks[2].url = UrlA \o HrefB /\ tasks[2].depth = 1 /\ tasks[2].parent = 1
        /\ ~tasks[2].fetched /\ ~tasks[2].stored /\ Children(2) = {}

\* Scenario A has run to its end and the child for /b has resolved.
C10_Witness == ScenarioADone /\ Len(tasks) = 2 /\ Resolved(2) /\ tasks[1].stored

\* The handles that are in self.futures.
Queued == {futures[i] : i \in 1..Len(futures)}

\* The handles executor.submit has returned and the submitting thread has not
\* yet put into self.futures (between the two calls of line 61 or line 121).
Unregistered == {h \in Handles : h = seed_h \/ \E p \in Handles : tasks[p].child = h}

\* C11 as claimed, taken over the states of the drain loop alone: self.futures
\* is empty exactly when no submitted task is unresolved.
C11_EmptyIffAllResolved ==
    pc \in {"drain_test", "drain_get", "drain_wait"} =>
        ((futures = <<>>) <=> (\A t \in Handles : Resolved(t)))

\* C11 as amended: the handle of every unresolved task is in self.futures, or
\* is the one __drain_queue has taken out and is waiting on, or has been
\* returned by submit and not yet put; the test of line 130 finds the queue
\* empty only when every submitted task has resolved, and once scrape() is
\* past the drain the queue is empty.
C11_OutstandingHeld ==
    /\ \A t \in Handles :
          ~Resolved(t) => t \in Queued \/ t = waiting \/ t \in Unregistered
    /\ pc = "drain_test" /\ futures = <<>> => \A t \in Handles : Resolved(t)
    /\ pc \in {"output", "done"} => futures = <<>>

\* The test of line 130 is about to find the queue empty after a crawl of a
\* parent and its child.
C11_Witness ==
    /\ pc = "drain_test" /\ futures = <<>>
    /\ \E t \in Handles : tasks[t].parent # 0

\* The href a child was built from: the children of a task are submitted in the
\* order of the links of its page.
HrefOf(c) ==
    LET p == tasks[c].parent IN
    tasks[p].hrefs[Cardinality({d \in Children(p) : d <= c})]

\* The child URL the specification gives for a link: scheme://host followed by
\* the href itself when the href begins with "/", the href unchanged otherwise.
Resolved_url(url, href) ==
    IF StartsWithSlash(href)
    THEN Scheme(url) \o <<":", "/", "/">> \o Netloc(url) \o href
    ELSE href

\* C12: every child is submitted for the URL its link resolves to, with one
\* slash between host and path: /about on https://a.test/x/y gives
\* https://a.test/about, and an href that does not begin with "/" is passed
\* through unchanged.
C12_OneSlash ==
    \A c \in Handles :
        tasks[c].parent # 0 =>
            tasks[c].url = Resolved_url(tasks[tasks[c].parent].url, HrefOf(c))

\* What line 118 computes for /about on https://a.test/x/y is
\* https://a.test//about; absolute links are passed through.
C12_DoubleSlash ==
    \A c \in Handles :
        tasks[c].parent # 0 /\ tasks[tasks[c].parent].url = UrlXY =>
            \/ HrefOf(c) = HrefAbout
               /\ tasks[c].url = <<"https", ":", "/", "/", "a.test", "/", "/", "about">>
            \/ HrefOf(c) = UrlXY /\ tasks[c].url = UrlXY

\* A task that resolved without calling requests.get stored nothing, submitted
\* no child and resolved with its marker.
C13_SkippedIsInert ==
    \A t \in Handles :
        Resolved(t) /\ ~tasks[t].fetched =>
            /\ ~tasks[t].stored /\ Children(t) = {}
            /\ tasks[t].result = Marker(tasks[t].url, tasks[t].depth)

\* A task that leaves the test of line 95 with its depth at the bound, or with
\* its URL a key of self.data, resolves in that step without a fetch; a
\* resolved task does nothing more, and self.data loses no key.
C13_SkipStep ==
    /\ \A t \in Handles :
          /\ tasks[t].at = "check" /\ tasks'[t].at # "check"
          /\ tasks[t].depth >= max_recursion_depth \/ tasks[t].url \in DOMAIN data
          => /\ Resolved(t)' /\ ~tasks'[t].fetched
             /\ data' = data /\ Len(tasks') = Len(tasks)
    /\ \A t \in Handles :
          Resolved(t) =>
              /\ Resolved(t)' /\ tasks'[t].result = tasks[t].result
              /\ tasks'[t].fetched = tasks[t].fetched
              /\ tasks'[t].stored = tasks[t].stored
              /\ Children(t)' = Children(t)
    /\ DOMAIN data \subseteq DOMAIN data'

\* C13: a task whose depth is at the bound, or whose URL is a key of the store
\* when it performs its check, fetches nothing, inserts nothing, submits no
\* child and resolves with its marker; so a task that checks after a record
\* for its URL was stored never fetches that URL.
C13_SkipConditions == []C13_SkippedIsInert /\ [][C13_SkipStep]_vars

\* A task below the depth bound, which passed line 91, has resolved without a
\* fetch: its URL was a key of self.data when it performed its check.
C13_Witness ==
    \E t \in Handles :
        /\ Resolved(t) /\ ~tasks[t].fetched /\ ~tasks[t].saw_cancel
        /\ tasks[t].depth < max_recursion_depth
        /\ tasks[t].url \in DOMAIN data
        /\ tasks[t].result = Marker(tasks[t].url, tasks[t].depth)

\* C14 as claimed: a handle that __drain_queue has taken out of self.futures
\* had resolved when it was taken out, so every handle taken out is resolved.
C14_TakenOutResolved ==
    \A t \in Handles : tasks[t].gets > 0 => Resolved(t)

\* C14 as amended: line 131 takes the handle out first and then waits on it;
\* the one handle taken out and not yet waited to its end may be unresolved,
\* every other handle taken out has resolved, and the loop tests the queue
\* again, or scrape() goes on to the output, only with all of them resolved.
C14_WaitedBeforeNext ==
    /\ \A t \in Handles :
          tasks[t].gets > 0 /\ ~Resolved(t) => pc = "drain_wait" /\ waiting = t
    /\ \A t \in Handles : tasks[t].waits > 0 => Resolved(t)
    /\ \A t \in Handles : tasks[t].waits <= tasks[t].gets
    /\ pc = "drain_wait" <=> waiting # 0
    /\ waiting # 0 => waiting \in Handles /\ tasks[waiting].gets > tasks[waiting].waits

\* __drain_queue has taken out a handle whose task has not resolved, after it
\* has waited another one to its end.
C14_Witness ==
    /\ pc = "drain_wait" /\ ~Resolved(waiting)
    /\ \E t \in Handles : tasks[t].waits > 0

\* Every handle a resolved task submitted has been put into self.futures.
ChildrenRegistered ==
    \A p \in Handles :
        Resolved(p) => \A c \in Children(p) : tasks[c].puts > 0

\* C15 as claimed: children are registered before their parent resolves, and
\* at every evaluation of the test of line 130 every unresolved task has its
\* handle in self.futures.
C15_UnresolvedQueuedAtTest ==
    /\ ChildrenRegistered
    /\ pc = "drain_test" =>
          \A t \in Handles : ~Resolved(t) => t \in Queued

\* C15 as amended: children are registered before their parent resolves; at
\* every evaluation of the test of line 130 an unresolved task has its handle
\* in self.futures, or it is the child an unresolved task has submitted at
\* line 121 and not yet put; and the test finds the queue non-empty whenever
\* a task is unresolved.
C15_RegisteredBeforeResolve ==
    /\ ChildrenRegistered
    /\ pc = "drain_test" =>
          /\ \A t \in Handles :
                ~Resolved(t) =>
                    \/ t \in Queued
                    \/ /\ tasks[t].parent # 0
                       /\ tasks[tasks[t].parent].child = t
                       /\ ~Resolved(tasks[t].parent)
          /\ (\E t \in Handles : ~Resolved(t)) => futures # <<>>

\* At the test of line 130 a child has been submitted and not yet put, while
\* the handle of its unresolved parent is in the queue.
C15_Witness ==
    /\ pc = "drain_test"
    /\ \E t \in Handles :
          /\ ~Resolved(t) /\ t \notin Queued
          /\ tasks[t].parent \in Queued

\* C16: a task whose fetch succeeded submits one child per link of its page,
\* each at depth + 1 and for the URL of its link, whether or not that URL is a
\* key of self.data: when the task has resolved it has as many children as its
\* page has links.
C16_OneChildPerLink ==
    \A t \in Handles :
        tasks[t].outcome = "ok" /\ Resolved(t) =>
            /\ Cardinality(Children(t)) = Len(PageLinks(web, tasks[t].url))
            /\ \A c \in Children(t) :
                  /\ tasks[c].depth = tasks[t].depth + 1
                  /\ tasks[c].url = NextUrl(tasks[t].url, HrefOf(c))

\* The same, for the runs in which no task raised: there every task that
\* fetched its page has one child per link.
C16_OneChildPerLinkUnlessRaised ==
    (\A t \in Handles : tasks[t].result.kind # "exception") => C16_OneChildPerLink

\* A child has been submitted for a URL that was already a key of self.data.
C16_SubmittedThoughVisited ==
    \E t \in Handles :
        /\ tasks[t].outcome = "ok" /\ Resolved(t)
        /\ \E c \in Children(t) : tasks[c].url = tasks[t].url

\* C17 as claimed: no child is submitted at a moment when RUNNING is already
\* False.
C17_NoSubmitAfterSignal ==
    [][Len(tasks') > Len(tasks) /\ tasks'[Len(tasks')].parent # 0 => RUNNING]_vars

\* C17 as amended: a task reads RUNNING once, at line 91, before anything else.
\* The parent of every child read it as True there; a task that read it as
\* False submits nothing; a task that read it as True goes on to submit its
\* children even when RUNNING has become False since.
C17_SignalReadAtEntry ==
    /\ \A c \in Handles :
          tasks[c].parent # 0 =>
              /\ ~tasks[tasks[c].parent].saw_cancel
              /\ tasks[tasks[c].parent].at \notin {"queued", "entry"}
    /\ \A t \in Handles : tasks[t].saw_cancel => Children(t) = {}
    /\ \A t \in Handles :
          tasks[t].at \in {"check", "fetch", "insert", "links", "put"} =>
              ~tasks[t].saw_cancel

\* A task that stored its page when RUNNING was already False has submitted a
\* child after that.
C17_Witness ==
    \E t \in Handles :
        /\ tasks[t].stored_late /\ ~tasks[t].saw_cancel
        /\ Children(t) # {}

\* The seed URLs.
Seeds == {start_urls[i] : i \in 1..Len(start_urls)}

\* The URLs the links of the page at url resolve to.
LinkTargets(url) ==
    {NextUrl(url, PageLinks(web, url)[j]) : j \in 1..Len(PageLinks(web, url))}

\* C18: every key of self.data is a URL that a task of depth below
\* max_recursion_depth fetched successfully and stored, and it is a seed URL or
\* the target of a link on a page whose URL is a key of self.data as well.
C18_KeysFetchedAndReachable ==
    \A u \in DOMAIN data :
        /\ data[u].page = u
        /\ data[u].by \in Handles
        /\ LET t == data[u].by IN
              /\ tasks[t].url = u /\ tasks[t].depth < max_recursion_depth
              /\ tasks[t].fetched /\ tasks[t].outcome = "ok" /\ tasks[t].stored
        /\ \/ u \in Seeds
           \/ \E v \in DOMAIN data : u \in LinkTargets(v)

\* self.data holds a page that is not a seed: it was reached through a link of
\* a stored page.
C18_Witness ==
    \E u \in DOMAIN data :
        /\ u \notin Seeds
        /\ \E v \in DOMAIN data : v # u /\ u \in LinkTargets(v)

\* With max_recursion_depth = 0 no task calls requests.get, no child is
\* submitted, nothing is stored, and every seed task that resolved did so with
\* its marker.
C19_NothingFetched ==
    max_recursion_depth = 0 =>
        /\ data = <<>>
        /\ Len(tasks) <= Len(start_urls)
        /\ \A t \in Handles :
              /\ tasks[t].parent = 0 /\ tasks[t].depth = 0
              /\ tasks[t].url = start_urls[t]
              /\ ~tasks[t].fetched /\ ~tasks[t].stored /\ tasks[t].outcome = "none"
              /\ Resolved(t) => tasks[t].result = Marker(tasks[t].url, 0)
        /\ pc # "crashed"

\* scrape() has returned: one task per seed, each resolved as a skip, and the
\* output is the empty mapping.
C19_SkippedAllSeeds ==
    /\ EmptyOutput
    /\ Len(tasks) = Len(start_urls)
    /\ \A t \in Handles : Resolved(t) /\ tasks[t].result = Marker(start_urls[t], 0)

\* C19: with max_recursion_depth = 0, whatever the seeds, no fetch is
\* initiated and no child submitted; every seed task resolves as a skip, the
\* crawl terminates and the output is the empty mapping.
C19_ZeroDepth ==
    /\ []C19_NothingFetched
    /\ (max_recursion_depth = 0) ~> C19_SkippedAllSeeds

\* A run of two seeds with max_recursion_depth = 0 has emitted its output.
C19_Witness ==
    /\ max_recursion_depth = 0 /\ Len(start_urls) = 2
    /\ C19_SkippedAllSeeds

\* No step is left to take: scrape() has returned or has been left by an
\* exception, and every submitted task has resolved.
RunEnded ==
    /\ pc \in {"done", "crashed"}
    /\ \A t \in Handles : Resolved(t)

\* No handle is put, taken out or waited on twice, none is taken out before it
\* was put or waited on before it was taken out, and a task that has moved on
\* from line 61 or line 121 has put the handle it was given.
AtMostOnce ==
    \A t \in Handles :
        /\ tasks[t].waits <= tasks[t].gets
        /\ tasks[t].gets <= tasks[t].puts
        /\ tasks[t].puts <= 1
        /\ tasks[t].puts = IF t \in Unregistered THEN 0 ELSE 1
        /\ tasks[t].gets = IF t \in Queued \/ t \in Unregistered THEN 0 ELSE 1

\* C20: every handle executor.submit returned is put into self.futures once
\* and is taken out and waited on by __drain_queue once: never more than
\* once, and when the run has ended every handle exactly once.
C20_EachHandleOnce ==
    /\ AtMostOnce
    /\ RunEnded =>
          \A t \in Handles :
              tasks[t].puts = 1 /\ tasks[t].gets = 1 /\ tasks[t].waits = 1

\* What holds in every run: no handle is handled twice, and when
\* __drain_queue returns every handle submitted has been put, taken out and
\* waited on once, so that as many handles were drained as tasks submitted.
C20_DrainedAllAtReturn ==
    /\ AtMostOnce
    /\ pc \in {"output", "done"} =>
          /\ \A t \in Handles :
                tasks[t].puts = 1 /\ tasks[t].gets = 1 /\ tasks[t].waits = 1
          /\ Cardinality({t \in Handles : tasks[t].waits = 1}) = Len(tasks)

\* __drain_queue has returned after draining the handles of a parent and of
\* its child.
C20_DrainedParentAndChild ==
    /\ pc = "output"
    /\ \E t \in Handles : tasks[t].parent # 0 /\ tasks[t].waits = 1

====
